---------------------------- MODULE Spec2Model ----------------------------
(***************************************************************************)
(* Emotion likelihood explorers of kensei0527/likelihood-plot.             *)
(*                                                                         *)
(* Three React components share one quantitative core:                     *)
(*   "number"  src/unnamed/part_000   LikelihoodExplorer, x typed in       *)
(*   "slider"  src/src/app/page.tsx   LikelihoodExplorer (second half of   *)
(*                                    the file), x set with sliders        *)
(*   "belt"    src/unnamed/part_001   EmotionBeltScatterExplorer, integer  *)
(*                                    weights, utility floor u_min,        *)
(*                                    scatter classification              *)
(* and the first half of page.tsx holds the older single-weight utility.   *)
(*                                                                         *)
(* Numbers.  The code computes in IEEE doubles; the model computes in      *)
(* fixed point and states the unit of every quantity:                      *)
(*   weights, w_max      tenths                  (WU   = 10)               *)
(*   cos, sin            thousandths             (TRIG = 1000)             *)
(*   utilities, u_min    1/(WU*TRIG)                                       *)
(*   beta                tenths                  (BU   = 10)               *)
(*   beta*(U - U_max)    1/(BU*WU*TRIG) = 1e-5                             *)
(*   S, tau1, tau2,                                                        *)
(*   sad_band, scores    1/P = 1e-4              (P    = 10000)            *)
(* A probability is kept as an exact fraction of "smoothed" numbers        *)
(* <<s, e>> = s/P + e*eps, eps = 1e-9 being far below the grid 1/P.        *)
(* Rounding of doubles (1e-16) is not modelled.                            *)
(***************************************************************************)
EXTENDS Integers, Sequences, FiniteSets, TLC

VARIABLES
  variant,    \* which component: "number", "slider" or "belt"
  q,          \* useState q        total quantity per issue
  x,          \* useState x        proposal (self share)
  wSelf,      \* useState wSelf    raw weights of self, tenths
  wOther,     \* useState wOther   raw weights of other, tenths
  wMax,       \* useState wMax     tenths
  beta,       \* useState beta     tenths
  tau1,       \* useState tau1     1e-4
  tau2,       \* useState tau2     1e-4
  sadBand,    \* useState sadBand  1e-4
  thetaDeg,   \* useState thetaDeg degrees (belt only)
  thetaStep,  \* useState thetaStep degrees
  uMin,       \* useState uMin     integer utility floor (belt only)
  sat,        \* argument S of emotionScoresFromS when it is exercised alone, 1e-4
  out,        \* value returned by a function when it is exercised alone
  edits       \* number of parameter edits made so far (bounds the exploration)

vars == <<variant, q, x, wSelf, wOther, wMax, beta, tau1, tau2, sadBand,
          thetaDeg, thetaStep, uMin, sat, out, edits>>

-----------------------------------------------------------------------------
(* Units *)

WU == 10
TRIG == 1000
BU == 10
P == 10000
N == 4

Issues == 1 .. N

Max2(a, b) == IF a >= b THEN a ELSE b
Min2(a, b) == IF a <= b THEN a ELSE b
Abs(a) == IF a < 0 THEN -a ELSE a

-----------------------------------------------------------------------------
(* Math.cos / Math.sin of deg2rad(th), th an integer number of degrees in  *)
(* -90 .. 90, in thousandths.                                              *)

CosTab ==
  << 1000, 1000, 999, 999, 998, 996, 995, 993, 990, 988,
     985, 982, 978, 974, 970, 966, 961, 956, 951, 946,
     940, 934, 927, 921, 914, 906, 899, 891, 883, 875,
     866, 857, 848, 839, 829, 819, 809, 799, 788, 777,
     766, 755, 743, 731, 719, 707, 695, 682, 669, 656,
     643, 629, 616, 602, 588, 574, 559, 545, 530, 515,
     500, 485, 469, 454, 438, 423, 407, 391, 375, 358,
     342, 326, 309, 292, 276, 259, 242, 225, 208, 191,
     174, 156, 139, 122, 105, 87, 70, 52, 35, 17,
     0 >>

CosDeg(th) == CosTab[Abs(th) + 1]

SinDeg(th) == IF th >= 0 THEN CosTab[90 - th + 1] ELSE -CosTab[90 + th + 1]

-----------------------------------------------------------------------------
(* Math.exp on the 1e-5 grid, result in 1e-4.  exp(-m) = 2^-k * exp(-r)    *)
(* with m = k*ln2 + r; exp(-r) is read from a table of step 0.01 and       *)
(* interpolated.  The result is rounded so that its order against 0 and 1  *)
(* is the real one: exp(a) < 1 iff a < 0, exp(a) > 0.                      *)

Ln2 == 69315
ExpTabStep == 1000

ExpTab ==
  << 10000, 9900, 9802, 9704, 9608, 9512, 9418, 9324, 9231, 9139,
     9048, 8958, 8869, 8781, 8694, 8607, 8521, 8437, 8353, 8270,
     8187, 8106, 8025, 7945, 7866, 7788, 7711, 7634, 7558, 7483,
     7408, 7334, 7261, 7189, 7118, 7047, 6977, 6907, 6839, 6771,
     6703, 6637, 6570, 6505, 6440, 6376, 6313, 6250, 6188, 6126,
     6065, 6005, 5945, 5886, 5827, 5769, 5712, 5655, 5599, 5543,
     5488, 5434, 5379, 5326, 5273, 5220, 5169, 5117, 5066, 5016,
     4966 >>

RECURSIVE Pow2(_)
Pow2(k) == IF k = 0 THEN 1 ELSE 2 * Pow2(k - 1)

\* exp(-m * 1e-5) for m > 0, in 1 .. P-1
ExpNeg(m) ==
  LET k == m \div Ln2
      r == m % Ln2
      j == r \div ExpTabStep
      f == r % ExpTabStep
      t == ExpTab[j + 1] - ((ExpTab[j + 1] - ExpTab[j + 2]) * f) \div ExpTabStep
      v == IF k >= 14 THEN 0 ELSE t \div Pow2(k)
  IN  Max2(1, Min2(P - 1, v))

Exp(a) ==
  IF a = 0 THEN P
  ELSE IF a < 0 THEN ExpNeg(-a)
  ELSE (P * P) \div ExpNeg(a)

-----------------------------------------------------------------------------
(* Vector ops *)

RECURSIVE dotFrom(_, _, _)
dotFrom(a, b, i) ==
  IF i > Len(a) THEN 0 ELSE a[i] * b[i] + dotFrom(a, b, i + 1)

dot(a, b) == dotFrom(a, b, 1)

add(a, b, sign) == [i \in 1 .. Len(a) |-> a[i] + sign * b[i]]

\* mutation: the lower bound is not applied
clampUpper(v, lo, hi) == Min2(hi, v)

\* mutation: a value outside the range is reflected at the bound it passed
clampReflect(v, lo, hi) ==
  IF v > hi THEN hi - (v - hi) ELSE IF v < lo THEN lo + (lo - v) ELSE v

clamp(v, lo, hi) == Max2(lo, Min2(hi, v))

\* Math.round on tenths: the nearest integer, halves towards +Infinity
MathRound(t) == ((t + 5) \div WU) * WU


-----------------------------------------------------------------------------
(* Weight clamp *)

\* part_000, page.tsx: w.map((wi) => clamp(wi, -wmax, wmax))
clampWeights(w, wmax) == [i \in 1 .. Len(w) |-> clamp(w[i], -wmax, wmax)]

\* part_001: w.map((wi) => Math.round(clamp(wi, -wmax, wmax)))
clampWeightsRound(w, wmax) ==
  [i \in 1 .. Len(w) |-> MathRound(clamp(w[i], -wmax, wmax))]

clampWeightsOf(v, w, wmax) ==
  IF v = "belt" THEN clampWeightsRound(w, wmax) ELSE clampWeights(w, wmax)

-----------------------------------------------------------------------------
(* Allocation enumerator: the four nested for loops, pushing in loop order *)

RECURSIVE loopX4(_, _, _, _, _)
loopX4(qq, x1, x2, x3, x4) ==
  IF x4 <= qq[4]
    THEN << <<x1, x2, x3, x4>> >> \o loopX4(qq, x1, x2, x3, x4 + 1)
    ELSE << >>

RECURSIVE loopX3(_, _, _, _)
loopX3(qq, x1, x2, x3) ==
  IF x3 <= qq[3]
    THEN loopX4(qq, x1, x2, x3, 0) \o loopX3(qq, x1, x2, x3 + 1)
    ELSE << >>

RECURSIVE loopX2(_, _, _)
loopX2(qq, x1, x2) ==
  IF x2 <= qq[2]
    THEN loopX3(qq, x1, x2, 0) \o loopX2(qq, x1, x2 + 1)
    ELSE << >>

RECURSIVE loopX1(_, _)
loopX1(qq, x1) ==
  IF x1 <= qq[1]
    THEN loopX2(qq, x1, 0) \o loopX1(qq, x1 + 1)
    ELSE << >>

\* mutation: the outer loop starts at 1
enumerateCandXFromOne(qq) == loopX1(qq, 1)

\* mutation: the loops are nested the other way round, first issue fastest
enumerateCandXFirstFastest(qq) ==
  LET n1 == qq[1] + 1
      n2 == qq[2] + 1
      n3 == qq[3] + 1
      n4 == qq[4] + 1
  IN  [k \in 1 .. n1 * n2 * n3 * n4 |->
         << (k - 1) % n1,
            ((k - 1) \div n1) % n2,
            ((k - 1) \div (n1 * n2)) % n3,
            ((k - 1) \div (n1 * n2 * n3)) % n4 >>]

enumerateCandX(qq) == loopX1(qq, 0)

-----------------------------------------------------------------------------
(* Utility, in 1/(WU*TRIG) *)

\* mutation: cos weighs the self term and sin the other term
utilitySelfCos(th, ws, wo, xx, qq) ==
  LET xOther == add(qq, xx, -1)
  IN  CosDeg(th) * dot(ws, xx) + SinDeg(th) * dot(wo, xOther)

\* mutation: the other side's share is taken as q + x
utilityOtherSum(th, ws, wo, xx, qq) ==
  LET xOther == add(qq, xx, 1)
  IN  CosDeg(th) * dot(wo, xOther) + SinDeg(th) * dot(ws, xx)

\* part_000, part_001, page.tsx (second half)
utility(th, ws, wo, xx, qq) ==
  LET xOther == add(qq, xx, -1)
  IN  CosDeg(th) * dot(wo, xOther) + SinDeg(th) * dot(ws, xx)

\* page.tsx (first half): one weight vector
utilitySingle(th, w, xx, qq) ==
  LET xOther == add(qq, xx, -1)
  IN  CosDeg(th) * dot(w, xx) + SinDeg(th) * dot(w, xOther)

\* mutation: the floor is not applied
clampUtilityNone(u, umin) == u

\* part_001: Math.max(u, uMin), uMin an integer
clampUtility(u, umin) == Max2(u, umin * WU * TRIG)

\* let umax = -Infinity
NegInf == -2000000000

\* for (const xx of candX) umax = Math.max(umax, utility(...)):
\* the passes lo .. hi of the loop, entered with umax; the range is walked
\* in order, first half then second half
RECURSIVE umaxFrom(_, _, _, _, _, _, _, _)
umaxFrom(th, ws, wo, qq, cand, lo, hi, umax) ==
  IF lo > hi THEN umax
  ELSE IF lo = hi THEN Max2(umax, utility(th, ws, wo, cand[lo], qq))
  ELSE LET mid == (lo + hi) \div 2
           sofar == umaxFrom(th, ws, wo, qq, cand, lo, mid, umax)
       IN  IF sofar >= umax      \* the running maximum is in hand here
             THEN umaxFrom(th, ws, wo, qq, cand, mid + 1, hi, sofar)
             ELSE umax

\* part_001: if (uClamped > umax) umax = uClamped
RECURSIVE umaxClampedFrom(_, _, _, _, _, _, _, _, _)
umaxClampedFrom(th, ws, wo, qq, cand, umin, lo, hi, umax) ==
  IF lo > hi THEN umax
  ELSE IF lo = hi
    THEN LET uClamped == clampUtility(utility(th, ws, wo, cand[lo], qq), umin)
         IN  IF uClamped > umax THEN uClamped ELSE umax
  ELSE LET mid == (lo + hi) \div 2
           sofar == umaxClampedFrom(th, ws, wo, qq, cand, umin, lo, mid, umax)
       IN  IF sofar >= umax
             THEN umaxClampedFrom(th, ws, wo, qq, cand, umin, mid + 1, hi, sofar)
             ELSE umax

\* mutation: the exponential is halved, so that the maximum has S = 0.5
satisfactionGivenUmaxHalved(u, umax, b) == Exp(b * (u - umax)) \div 2

\* mutation: beta is taken as 1.0 whatever the slider says
satisfactionGivenUmaxBetaOne(u, umax, b) == Exp(BU * (u - umax))

\* Math.exp(beta * (u - umax))
satisfactionGivenUmax(u, umax, b) == Exp(b * (u - umax))

\* mutation: the umax loop stops one candidate short
satisfactionSkipLast(th, ws, wo, xx, qq, b, cand) ==
  LET umax == umaxFrom(th, ws, wo, qq, cand, 1, Len(cand) - 1, NegInf)
      u == utility(th, ws, wo, xx, qq)
  IN  Exp(b * (u - umax))

\* mutation: the exponent has the opposite sign
satisfactionSignFlipped(th, ws, wo, xx, qq, b, cand) ==
  LET umax == umaxFrom(th, ws, wo, qq, cand, 1, Len(cand), NegInf)
      u == utility(th, ws, wo, xx, qq)
  IN  Exp(b * (umax - u))

\* part_000, page.tsx
satisfaction(th, ws, wo, xx, qq, b, cand) ==
  LET umax == umaxFrom(th, ws, wo, qq, cand, 1, Len(cand), NegInf)
      u == utility(th, ws, wo, xx, qq)
  IN  Exp(b * (u - umax))

-----------------------------------------------------------------------------
(* Emotion scorer, scores in 1/P.  The denominators tau1, 1 - tau2,        *)
(* sadBand and tau2 - tau1 are positive wherever the code divides by them  *)
(* with the values its sliders produce.                                    *)

\* mutation: values below 0 pass unclipped
clamp01NoFloor(num, den) == IF num >= den THEN P ELSE (num * P) \div den

\* clamp01(num / den), den > 0
clamp01(num, den) ==
  IF num <= 0 THEN 0 ELSE IF num >= den THEN P ELSE (num * P) \div den

\* mutation: Joy rises from tau1 instead of tau2
emotionScoresJoyFromTau1(S, t1, t2, sb) ==
  LET anger == clamp01(t1 - S, t1)
      sad == IF Abs(S - t1) <= sb THEN ((sb - Abs(S - t1)) * P) \div sb ELSE 0
      neutral == IF S > t1 /\ S < t2
                   THEN clamp01((t2 - t1) - Abs(2 * S - (t1 + t2)), t2 - t1)
                   ELSE 0
      joy == clamp01(S - t1, P - t1)
  IN  [Anger |-> anger, Sad |-> sad, Neutral |-> neutral, Joy |-> joy]

\* mutation: the Sad spike is centred on tau2
emotionScoresSadAtTau2(S, t1, t2, sb) ==
  LET anger == clamp01(t1 - S, t1)
      sad == IF Abs(S - t2) <= sb THEN ((sb - Abs(S - t2)) * P) \div sb ELSE 0
      neutral == IF S > t1 /\ S < t2
                   THEN clamp01((t2 - t1) - Abs(2 * S - (t1 + t2)), t2 - t1)
                   ELSE 0
      joy == clamp01(S - t2, P - t2)
  IN  [Anger |-> anger, Sad |-> sad, Neutral |-> neutral, Joy |-> joy]

\* mutation: the Neutral bump is as wide as tau2 - tau1 on either side
emotionScoresWideNeutral(S, t1, t2, sb) ==
  LET anger == clamp01(t1 - S, t1)
      sad == IF Abs(S - t1) <= sb THEN ((sb - Abs(S - t1)) * P) \div sb ELSE 0
      neutral == IF S > t1 /\ S < t2
                   THEN clamp01(2 * (t2 - t1) - Abs(2 * S - (t1 + t2)),
                                2 * (t2 - t1))
                   ELSE 0
      joy == clamp01(S - t2, P - t2)
  IN  [Anger |-> anger, Sad |-> sad, Neutral |-> neutral, Joy |-> joy]

\* mutation: Anger is measured from tau2 instead of tau1
emotionScoresAngerFromTau2(S, t1, t2, sb) ==
  LET anger == clamp01(t2 - S, t2)
      sad == IF Abs(S - t1) <= sb THEN ((sb - Abs(S - t1)) * P) \div sb ELSE 0
      neutral == IF S > t1 /\ S < t2
                   THEN clamp01((t2 - t1) - Abs(2 * S - (t1 + t2)), t2 - t1)
                   ELSE 0
      joy == clamp01(S - t2, P - t2)
  IN  [Anger |-> anger, Sad |-> sad, Neutral |-> neutral, Joy |-> joy]

emotionScoresFromS(S, t1, t2, sb) ==
  LET anger == clamp01(t1 - S, t1)
      sad == IF Abs(S - t1) <= sb THEN ((sb - Abs(S - t1)) * P) \div sb ELSE 0
      \* 1 - |S - mid| / width with mid, width doubled
      neutral == IF S > t1 /\ S < t2
                   THEN clamp01((t2 - t1) - Abs(2 * S - (t1 + t2)), t2 - t1)
                   ELSE 0
      joy == clamp01(S - t2, P - t2)
  IN  [Anger |-> anger, Sad |-> sad, Neutral |-> neutral, Joy |-> joy]

-----------------------------------------------------------------------------
(* Probability normalizer.  <<s, e>> is s/P + e*eps.                       *)

Emotions == {"Anger", "Sad", "Neutral", "Joy"}

SmAdd(a, b) == <<a[1] + b[1], a[2] + b[2]>>
SmLess(a, b) == a[1] < b[1] \/ (a[1] = b[1] /\ a[2] < b[2])

\* mutation: the total is taken over the scores before eps is added
scoresToProbsRawTotal(scores) ==
  LET total == <<scores.Anger + scores.Sad + scores.Neutral + scores.Joy, 0>>
  IN  [Anger   |-> [num |-> <<scores.Anger, 1>>,   den |-> total],
       Sad     |-> [num |-> <<scores.Sad, 1>>,     den |-> total],
       Neutral |-> [num |-> <<scores.Neutral, 1>>, den |-> total],
       Joy     |-> [num |-> <<scores.Joy, 1>>,     den |-> total]]

scoresToProbs(scores) ==
  LET total == SmAdd(SmAdd(SmAdd(<<scores.Anger, 1>>, <<scores.Sad, 1>>),
                           <<scores.Neutral, 1>>), <<scores.Joy, 1>>)
  IN  [Anger   |-> [num |-> <<scores.Anger, 1>>,   den |-> total],
       Sad     |-> [num |-> <<scores.Sad, 1>>,     den |-> total],
       Neutral |-> [num |-> <<scores.Neutral, 1>>, den |-> total],
       Joy     |-> [num |-> <<scores.Joy, 1>>,     den |-> total]]

\* p1 > p2 for two probabilities of one distribution (same denominator)
ProbGreater(p1, p2) == SmLess(p2.num, p1.num)

\* Object.keys(probs): the keys in the order scoresToProbs writes them
ProbKeys == <<"Anger", "Sad", "Neutral", "Joy">>

\* part_001: the order the four scatter series are drawn in
EMO_ORDER == <<"Joy", "Neutral", "Sad", "Anger">>

\* let best = "Joy"; keys.forEach((k) => { if (probs[k] > bestVal) ... })
RECURSIVE argmaxFrom(_, _, _)
argmaxFrom(probs, i, best) ==
  IF i > Len(ProbKeys) THEN best
  ELSE argmaxFrom(probs, i + 1,
                  IF ProbGreater(probs[ProbKeys[i]], probs[best])
                    THEN ProbKeys[i] ELSE best)

\* mutation: best starts at the first key instead of "Joy"
argmaxFirstKey(probs) == argmaxFrom(probs, 1, "Anger")

argmax(probs) == argmaxFrom(probs, 1, "Joy")

-----------------------------------------------------------------------------
(* Component state *)

Variants == {"number", "slider", "belt"}

DefaultQ == <<7, 5, 5, 5>>
DefaultX == <<3, 2, 2, 1>>
DefaultWSelf(v) == IF v = "belt" THEN <<20, 10, 0, -10>> ELSE <<6, 2, 1, 1>>
DefaultWOther(v) == IF v = "belt" THEN <<20, 0, -10, 10>> ELSE <<5, -2, 3, 1>>
DefaultWMax == 40
DefaultBeta == 8
DefaultTau1 == 4000
DefaultTau2 == 7000
DefaultSadBand == 200
DefaultThetaDeg == 45
DefaultThetaStep == 1
DefaultUMin == 0

\* the state the useState calls construct
Defaults(v) ==
  /\ q = DefaultQ
  /\ x = DefaultX
  /\ wSelf = DefaultWSelf(v)
  /\ wOther = DefaultWOther(v)
  /\ wMax = DefaultWMax
  /\ beta = DefaultBeta
  /\ tau1 = DefaultTau1
  /\ tau2 = DefaultTau2
  /\ sadBand = DefaultSadBand
  /\ thetaDeg = DefaultThetaDeg
  /\ thetaStep = DefaultThetaStep
  /\ uMin = DefaultUMin

\* useMemo values: recomputed from the state at every render
wSelfClamped == clampWeightsOf(variant, wSelf, wMax)
wOtherClamped == clampWeightsOf(variant, wOther, wMax)
candX == enumerateCandX(q)

-----------------------------------------------------------------------------
(* What the user can type or drag.  A typed text is << >> when parseFloat  *)
(* gives NaN (empty or non-numeric) and <<t>> for the number t tenths.     *)

MaxEdits == 1

CountTyped == {<< >>, <<-10>>, <<10>>, <<15>>}
ShareTyped == {<< >>, <<-10>>, <<15>>, <<60>>}
WeightTyped == {<< >>, <<-50>>, <<3>>, <<45>>}
WMaxTyped == {<< >>, <<-10>>, <<5>>, <<20>>}
UMinTyped == {<< >>, <<-20>>, <<10>>}
BetaSlider == {0, 5, 40}
Tau1Slider == {500, 4000, 9000}

\* mutation: the tau2 slider runs up to 1
Tau2SliderToOne == {1000, 6000, 7000, P}

Tau2Slider == {1000, 6000, 7000, 9800}
SadBandSlider == {50, 200, 1000}
ThetaStepSlider == {5, 7, 10}
ThetaDegSlider == {-90, -30, 0, 90}
WeightDrag == {-40, -5, 0, 10}

\* positions the x slider of an issue with total qi is dragged to
ShareDrag(qi) == {v \in {0, 1, qi} : v <= qi}

\* mutation: the typed count is not floored at 0
ParseCountSigned(t) == IF t = << >> THEN 0 ELSE MathRound(t[1]) \div WU

\* Math.max(0, Math.round(parseFloat(text)) || 0)
ParseCount(t) == IF t = << >> THEN 0 ELSE Max2(0, MathRound(t[1]) \div WU)

\* isNaN(v) ? 0 : v
ParseWeight(t) == IF t = << >> THEN 0 ELSE t[1]

\* Math.max(0, parseFloat(text) || 0)
ParseWMax(t) == IF t = << >> THEN 0 ELSE Max2(0, t[1])

\* Math.max(0, parseInt(text) || 0): parseInt drops the fraction
ParseWMaxInt(t) ==
  IF t = << >> THEN 0
  ELSE Max2(0, (IF t[1] >= 0 THEN t[1] \div WU ELSE -((-t[1]) \div WU)) * WU)

\* Number(text): the empty text is 0
ParseUMin(t) == IF t = << >> THEN 0 ELSE t[1] \div WU

-----------------------------------------------------------------------------
(* Handlers *)

\* part_000: q input onChange, the text typed being one of typed
SetQOf(typed) ==
  /\ variant = "number"
  /\ \E i \in Issues, t \in typed :
       q' = [q EXCEPT ![i] = ParseCount(t)]
  /\ UNCHANGED <<variant, x, wSelf, wOther, wMax, beta, tau1, tau2, sadBand,
                 thetaDeg, thetaStep, uMin, sat, out>>

SetQ == SetQOf(CountTyped)

\* part_000: x input onChange
SetXTyped ==
  /\ variant = "number"
  /\ \E i \in Issues, t \in ShareTyped :
       x' = [x EXCEPT ![i] = ParseCount(t)]
  /\ UNCHANGED <<variant, q, wSelf, wOther, wMax, beta, tau1, tau2, sadBand,
                 thetaDeg, thetaStep, uMin, sat, out>>

\* page.tsx, part_001: x slider, min 0, max q[i], step 1
SetXSlider ==
  /\ variant \in {"slider", "belt"}
  /\ \E i \in Issues :
       \E v \in ShareDrag(q[i]) : x' = [x EXCEPT ![i] = v]
  /\ UNCHANGED <<variant, q, wSelf, wOther, wMax, beta, tau1, tau2, sadBand,
                 thetaDeg, thetaStep, uMin, sat, out>>

\* part_000: w_self / w_other inputs
SetWTyped ==
  /\ variant = "number"
  /\ \E i \in Issues, t \in WeightTyped :
       \/ wSelf' = [wSelf EXCEPT ![i] = ParseWeight(t)] /\ UNCHANGED wOther
       \/ wOther' = [wOther EXCEPT ![i] = ParseWeight(t)] /\ UNCHANGED wSelf
  /\ UNCHANGED <<variant, q, x, wMax, beta, tau1, tau2, sadBand,
                 thetaDeg, thetaStep, uMin, sat, out>>

\* page.tsx: weight sliders, min -wMax, max wMax, step 0.1
\* part_001: WeightSliderRow, min -wMax, max wMax, step 1, Math.round(v)
SetWSlider ==
  /\ variant \in {"slider", "belt"}
  /\ \E i \in Issues, v \in WeightDrag :
       /\ -wMax <= v /\ v <= wMax
       /\ variant = "belt" => (v + wMax) % WU = 0
       /\ LET w == IF variant = "belt" THEN MathRound(v) ELSE v
          IN  \/ wSelf' = [wSelf EXCEPT ![i] = w] /\ UNCHANGED wOther
              \/ wOther' = [wOther EXCEPT ![i] = w] /\ UNCHANGED wSelf
  /\ UNCHANGED <<variant, q, x, wMax, beta, tau1, tau2, sadBand,
                 thetaDeg, thetaStep, uMin, sat, out>>

\* w_max input
SetWMax ==
  /\ \E t \in WMaxTyped :
       wMax' = IF variant = "belt" THEN ParseWMaxInt(t) ELSE ParseWMax(t)
  /\ UNCHANGED <<variant, q, x, wSelf, wOther, beta, tau1, tau2, sadBand,
                 thetaDeg, thetaStep, uMin, sat, out>>

\* beta slider
SetBeta ==
  /\ \E v \in BetaSlider : beta' = v
  /\ UNCHANGED <<variant, q, x, wSelf, wOther, wMax, tau1, tau2, sadBand,
                 thetaDeg, thetaStep, uMin, sat, out>>

\* tau1 slider, 0.05 .. 0.9
SetTau1 ==
  /\ \E v \in Tau1Slider : tau1' = v
  /\ UNCHANGED <<variant, q, x, wSelf, wOther, wMax, beta, tau2, sadBand,
                 thetaDeg, thetaStep, uMin, sat, out>>

\* tau2 slider, 0.1 .. 0.98
SetTau2 ==
  /\ \E v \in Tau2Slider : tau2' = v
  /\ UNCHANGED <<variant, q, x, wSelf, wOther, wMax, beta, tau1, sadBand,
                 thetaDeg, thetaStep, uMin, sat, out>>

\* sad_band slider, 0.005 .. 0.1
SetSadBand ==
  /\ \E v \in SadBandSlider : sadBand' = v
  /\ UNCHANGED <<variant, q, x, wSelf, wOther, wMax, beta, tau1, tau2,
                 thetaDeg, thetaStep, uMin, sat, out>>

\* part_000, page.tsx: theta grid step slider, 1 .. 10
SetThetaStep ==
  /\ variant \in {"number", "slider"}
  /\ \E v \in ThetaStepSlider : thetaStep' = v
  /\ UNCHANGED <<variant, q, x, wSelf, wOther, wMax, beta, tau1, tau2, sadBand,
                 thetaDeg, uMin, sat, out>>

\* part_001: theta slider, -90 .. 90, Math.round(v)
SetThetaDeg ==
  /\ variant = "belt"
  /\ \E v \in ThetaDegSlider : thetaDeg' = v
  /\ UNCHANGED <<variant, q, x, wSelf, wOther, wMax, beta, tau1, tau2, sadBand,
                 thetaStep, uMin, sat, out>>

\* part_001: u_min input, the text typed being one of typed
SetUMinOf(typed) ==
  /\ variant = "belt"
  /\ \E t \in typed : uMin' = ParseUMin(t)
  /\ UNCHANGED <<variant, q, x, wSelf, wOther, wMax, beta, tau1, tau2, sadBand,
                 thetaDeg, thetaStep, sat, out>>

SetUMin == SetUMinOf(UMinTyped)

\* mutation: reset without its setThetaStep call
resetKeepsThetaStep ==
  /\ q' = <<7, 5, 5, 5>>
  /\ x' = <<3, 2, 2, 1>>
  /\ wSelf' = IF variant = "belt" THEN <<20, 10, 0, -10>> ELSE <<6, 2, 1, 1>>
  /\ wOther' = IF variant = "belt" THEN <<20, 0, -10, 10>> ELSE <<5, -2, 3, 1>>
  /\ wMax' = 4 * WU
  /\ beta' = 8
  /\ tau1' = 4000
  /\ tau2' = 7000
  /\ sadBand' = 200
  /\ thetaDeg' = IF variant = "belt" THEN 45 ELSE thetaDeg
  /\ thetaStep' = thetaStep
  /\ uMin' = IF variant = "belt" THEN 0 ELSE uMin

\* reset: the setter calls of the handler, each with the literal it passes
\* (setThetaDeg and setUMin exist in part_001 only)
reset ==
  /\ q' = <<7, 5, 5, 5>>
  /\ x' = <<3, 2, 2, 1>>
  /\ wSelf' = IF variant = "belt" THEN <<20, 10, 0, -10>> ELSE <<6, 2, 1, 1>>
  /\ wOther' = IF variant = "belt" THEN <<20, 0, -10, 10>> ELSE <<5, -2, 3, 1>>
  /\ wMax' = 4 * WU
  /\ beta' = 8
  /\ tau1' = 4000
  /\ tau2' = 7000
  /\ sadBand' = 200
  /\ thetaDeg' = IF variant = "belt" THEN 45 ELSE thetaDeg
  /\ thetaStep' = 1
  /\ uMin' = IF variant = "belt" THEN 0 ELSE uMin

Reset ==
  /\ reset
  /\ UNCHANGED <<variant, sat, out>>

-----------------------------------------------------------------------------
(* The components from their constructed state *)

Init ==
  /\ variant \in Variants
  /\ Defaults(variant)
  /\ sat = P
  /\ out = << >>
  /\ edits = 0

Counted == edits < MaxEdits /\ edits' = edits + 1

Next ==
  \/ Counted /\ SetQ
  \/ Counted /\ SetXTyped
  \/ Counted /\ SetXSlider
  \/ Counted /\ SetWTyped
  \/ Counted /\ SetWSlider
  \/ Counted /\ SetWMax
  \/ Counted /\ SetBeta
  \/ Counted /\ SetTau1
  \/ Counted /\ SetTau2
  \/ Counted /\ SetSadBand
  \/ Counted /\ SetThetaStep
  \/ Counted /\ SetThetaDeg
  \/ Counted /\ SetUMin
  \/ Reset /\ UNCHANGED edits

Spec == Init /\ [][Next]_vars

-----------------------------------------------------------------------------
(* Evaluation: what a render computes from the state *)

\* mutation: the loop runs while th < 90
sweepOfExclusive(step) ==
  LET passes == {k \in 1 .. 181 : -90 + (k - 1) * step < 90}
  IN  [k \in 1 .. Cardinality(passes) |-> -90 + (k - 1) * step]

\* for (let th = -90; th <= 90; th += step): the k-th pass has
\* th = -90 + (k-1)*step, and the loop makes the passes whose th <= 90
sweepOf(step) ==
  LET passes == {k \in 1 .. 181 : -90 + (k - 1) * step <= 90}
  IN  [k \in 1 .. Cardinality(passes) |-> -90 + (k - 1) * step]

sweepThetas == sweepOf(thetaStep)

\* the utility a sweep evaluates for allocation xx (part_001 clips it)
evalU(th, xx) ==
  IF variant = "belt"
    THEN clampUtility(utility(th, wSelfClamped, wOtherClamped, xx, q), uMin)
    ELSE utility(th, wSelfClamped, wOtherClamped, xx, q)

\* the umax a sweep finds over the candidates cand
umaxOver(th, cand) ==
  IF variant = "belt"
    THEN umaxClampedFrom(th, wSelfClamped, wOtherClamped, q, cand, uMin,
                         1, Len(cand), NegInf)
    ELSE umaxFrom(th, wSelfClamped, wOtherClamped, q, cand, 1, Len(cand), NegInf)

evalUmax(th) == umaxOver(th, candX)

\* S of allocation xx at angle th, the candidates being cand
evalSOver(th, xx, cand) ==
  IF variant = "belt"
    THEN satisfactionGivenUmax(evalU(th, xx), umaxOver(th, cand), beta)
    ELSE satisfaction(th, wSelfClamped, wOtherClamped, xx, q, beta, cand)

evalS(th, xx) == evalSOver(th, xx, candX)

evalProbs(S) == scoresToProbs(emotionScoresFromS(S, tau1, tau2, sadBand))

\* data / lineData: one row per angle of the sweep, for the proposal x
data ==
  LET cand == candX
      sw == sweepThetas
  IN  [k \in DOMAIN sw |->
         [theta |-> sw[k], probs |-> evalProbs(evalSOver(sw[k], x, cand))]]

\* part_001 scatterGroups: the first loop's umax (clipped utilities, thetaDeg)
scatterUmax == evalUmax(thetaDeg)

\* second loop: S, label and point of candidate xx, given the first loop's umax
scatterS(xx, umax) == satisfactionGivenUmax(evalU(thetaDeg, xx), umax, beta)

scatterLabel(xx, umax) == argmax(evalProbs(scatterS(xx, umax)))

scatterPoint(xx) ==
  [sx |-> dot(wSelfClamped, xx), oy |-> dot(wOtherClamped, add(q, xx, -1))]

\* groups[best].push(...) for the candidates lo .. hi of cand, in order
RECURSIVE groupFrom(_, _, _, _, _)
groupFrom(e, cand, lo, hi, umax) ==
  IF lo > hi THEN << >>
  ELSE IF lo = hi
    THEN IF scatterLabel(cand[lo], umax) = e
           THEN <<scatterPoint(cand[lo])>> ELSE << >>
  ELSE LET mid == (lo + hi) \div 2
       IN  groupFrom(e, cand, lo, mid, umax) \o groupFrom(e, cand, mid + 1, hi, umax)

scatterGroups ==
  LET cand == candX
      umax == umaxOver(thetaDeg, cand)
  IN  [e \in Emotions |-> groupFrom(e, cand, 1, Len(cand), umax)]

-----------------------------------------------------------------------------
(* Evaluation explored at every state.  part_000 is explored from states   *)
(* its q and x inputs lead to, with totals small enough to sweep all the   *)
(* angles over all the candidates at every state; part_001 from its        *)
(* constructed state, where the scatter is evaluated at thetaDeg.          *)

MaxEvalEdits == 1

Scenarios ==
  { [variant |-> "number", q |-> <<1, 1, 0, 0>>, x |-> <<1, 0, 0, 0>>,
     wSelf |-> DefaultWSelf("number"), wOther |-> DefaultWOther("number"),
     beta |-> DefaultBeta, thetaStep |-> 10],
    [variant |-> "number", q |-> <<1, 1, 0, 0>>, x |-> <<1, 0, 0, 0>>,
     wSelf |-> DefaultWSelf("number"), wOther |-> DefaultWOther("number"),
     beta |-> 0, thetaStep |-> 10],
    [variant |-> "number", q |-> <<1, 1, 0, 0>>, x |-> <<0, 1, 0, 0>>,
     wSelf |-> DefaultWSelf("number"), wOther |-> DefaultWOther("number"),
     beta |-> 5, thetaStep |-> 10],
    [variant |-> "belt", q |-> DefaultQ, x |-> DefaultX,
     wSelf |-> DefaultWSelf("belt"), wOther |-> DefaultWOther("belt"),
     beta |-> DefaultBeta, thetaStep |-> DefaultThetaStep] }

InitEval ==
  /\ \E sc \in Scenarios :
       /\ variant = sc.variant
       /\ q = sc.q
       /\ x = sc.x
       /\ wSelf = sc.wSelf
       /\ wOther = sc.wOther
       /\ beta = sc.beta
       /\ thetaStep = sc.thetaStep
  /\ wMax = DefaultWMax
  /\ tau1 = DefaultTau1
  /\ tau2 = DefaultTau2
  /\ sadBand = DefaultSadBand
  /\ thetaDeg = DefaultThetaDeg
  /\ uMin = DefaultUMin
  /\ sat = P
  /\ out = << >>
  /\ edits = 0

CountedEval == edits < MaxEvalEdits /\ edits' = edits + 1

NextEval ==
  \/ CountedEval /\ SetQ
  \/ CountedEval /\ SetXTyped
  \/ CountedEval /\ SetXSlider
  \/ CountedEval /\ SetWTyped
  \/ CountedEval /\ SetWSlider
  \/ CountedEval /\ SetWMax
  \/ CountedEval /\ SetBeta
  \/ CountedEval /\ SetTau1
  \/ CountedEval /\ SetTau2
  \/ CountedEval /\ SetSadBand
  \/ CountedEval /\ SetThetaStep
  \/ CountedEval /\ SetThetaDeg
  \/ CountedEval /\ SetUMin

SpecEval == InitEval /\ [][NextEval]_vars

-----------------------------------------------------------------------------
(* Functions exercised alone: Init draws the arguments, the action applies *)
(* the function and keeps what it returns in out.                          *)

\* the state variables a function under exercise does not read
RestDefault ==
  /\ beta = DefaultBeta
  /\ thetaDeg = DefaultThetaDeg
  /\ thetaStep = DefaultThetaStep
  /\ uMin = DefaultUMin
  /\ out = << >>
  /\ edits = 0

(* enumerateCandX *)

MaxQ == 2

InitEnum ==
  /\ variant = "number"
  /\ q \in {<<a, b, c, d>> : a \in 0 .. MaxQ, b \in 0 .. MaxQ,
                             c \in 0 .. MaxQ, d \in 0 .. MaxQ}
  /\ x = <<0, 0, 0, 0>>
  /\ wSelf = DefaultWSelf("number")
  /\ wOther = DefaultWOther("number")
  /\ wMax = DefaultWMax
  /\ tau1 = DefaultTau1
  /\ tau2 = DefaultTau2
  /\ sadBand = DefaultSadBand
  /\ sat = P
  /\ RestDefault

Enumerate ==
  /\ edits = 0
  /\ out' = enumerateCandX(q)
  /\ edits' = 1
  /\ UNCHANGED <<variant, q, x, wSelf, wOther, wMax, beta, tau1, tau2, sadBand,
                 thetaDeg, thetaStep, uMin, sat>>

NextEnum == Enumerate

SpecEnum == InitEnum /\ [][NextEnum]_vars

(* emotionScoresFromS, scoresToProbs and the argmax of the scatter *)

SatStep == 500

SatGrid == {1, P} \cup {k * SatStep : k \in 1 .. (P \div SatStep)}

InitScore ==
  /\ variant = "belt"
  /\ sat \in SatGrid
  /\ tau1 \in Tau1Slider
  /\ tau2 \in Tau2Slider
  /\ sadBand \in SadBandSlider
  /\ q = DefaultQ
  /\ x = DefaultX
  /\ wSelf = DefaultWSelf("belt")
  /\ wOther = DefaultWOther("belt")
  /\ wMax = DefaultWMax
  /\ RestDefault

Score ==
  /\ edits = 0
  /\ LET scores == emotionScoresFromS(sat, tau1, tau2, sadBand)
         probs == scoresToProbs(scores)
     IN  out' = [scores |-> scores, probs |-> probs, best |-> argmax(probs)]
  /\ edits' = 1
  /\ UNCHANGED <<variant, q, x, wSelf, wOther, wMax, beta, tau1, tau2, sadBand,
                 thetaDeg, thetaStep, uMin, sat>>

NextScore == Score

SpecScore == InitScore /\ [][NextScore]_vars

(* clampWeights, both variants *)

MaxW == 25
MaxWMax == 20

InitClamp ==
  /\ variant \in {"number", "belt"}
  /\ wSelf \in {<<a, -a, 0, b>> : a \in -MaxW .. MaxW, b \in -MaxW .. MaxW}
  /\ wOther = <<0, 0, 0, 0>>
  /\ wMax \in 0 .. MaxWMax
  /\ q = DefaultQ
  /\ x = DefaultX
  /\ tau1 = DefaultTau1
  /\ tau2 = DefaultTau2
  /\ sadBand = DefaultSadBand
  /\ sat = P
  /\ RestDefault

Clamp ==
  /\ edits = 0
  /\ out' = clampWeightsOf(variant, wSelf, wMax)
  /\ edits' = 1
  /\ UNCHANGED <<variant, q, x, wSelf, wOther, wMax, beta, tau1, tau2, sadBand,
                 thetaDeg, thetaStep, uMin, sat>>

NextClamp == Clamp

SpecClamp == InitClamp /\ [][NextClamp]_vars

-----------------------------------------------------------------------------
(* Properties of the functions exercised alone *)

Prod(qq) == (qq[1] + 1) * (qq[2] + 1) * (qq[3] + 1) * (qq[4] + 1)

InRange(a, qq) == \A i \in Issues : 0 <= a[i] /\ a[i] <= qq[i]

\* C4: for every q of 4 non-negative integers enumerateCandX(q) returns
\* exactly prod(q_i + 1) allocations, none twice, each with 0 <= x_i <= q_i,
\* and every integer vector in that range is among them
EnumeratorExact ==
  edits = 1 =>
    /\ Len(out) = Prod(q)
    /\ \A i, j \in 1 .. Len(out) : i # j => out[i] # out[j]
    /\ \A i \in 1 .. Len(out) : InRange(out[i], q)
    /\ \A a \in (0 .. q[1]) \X (0 .. q[2]) \X (0 .. q[3]) \X (0 .. q[4]) :
         \E i \in 1 .. Len(out) : out[i] = a

\* C4 witness: q = (2,1,0,2) enumerated to its 18 allocations, last one q
EnumeratorExactSeen ==
  /\ edits = 1
  /\ q = <<2, 1, 0, 2>>
  /\ Len(out) = 18
  /\ out[1] = <<0, 0, 0, 0>>
  /\ out[18] = <<2, 1, 0, 2>>

ValidThresholds == 0 < tau1 /\ tau1 < tau2 /\ tau2 < P /\ sadBand > 0

\* C2: for S in (0,1] and valid thresholds the four probabilities sum to 1
\* (the numerators add up to the common denominator) and each lies strictly
\* between 0 and 1
ProbsNormalised ==
  (edits = 1 /\ ValidThresholds /\ 0 < sat /\ sat <= P) =>
    LET p == out.probs
    IN  /\ \A e \in Emotions :
             p[e].den = SmAdd(SmAdd(SmAdd(p.Anger.num, p.Sad.num),
                                    p.Neutral.num), p.Joy.num)
        /\ \A e \in Emotions :
             SmLess(<<0, 0>>, p[e].num) /\ SmLess(p[e].num, p[e].den)

\* C2 witness: S = 0.45 between tau1 = 0.4 and tau2 = 0.6 with a 0.1 band:
\* Sad and Neutral score 0.5 each, Anger and Joy only eps
ProbsNormalisedSeen ==
  /\ edits = 1
  /\ ValidThresholds
  /\ sat = 4500 /\ tau1 = 4000 /\ tau2 = 6000 /\ sadBand = 1000
  /\ out.probs.Sad.num = <<5000, 1>>
  /\ out.probs.Anger.num = <<0, 1>>
  /\ out.probs.Joy.den = <<10000, 4>>

\* e has the largest probability of the distribution p
IsMax(p, e) == \A f \in Emotions : ~ProbGreater(p[f], p[e])

TieAtMax(p) == Cardinality({e \in Emotions : IsMax(p, e)}) >= 2

\* the first label of order that has the largest probability
FirstMaxIn(order, p) ==
  order[CHOOSE i \in 1 .. Len(order) :
          /\ IsMax(p, order[i])
          /\ \A j \in 1 .. (i - 1) : ~IsMax(p, order[j])]

\* C6 as stated: on a tie at the maximum the label is the first of the tied
\* labels in the order Joy, Neutral, Sad, Anger
TieFirstInEmoOrder ==
  (edits = 1 /\ TieAtMax(out.probs)) => out.best = FirstMaxIn(EMO_ORDER, out.probs)

\* C6: on a tie at the maximum the label is Joy when Joy is among the tied
\* labels, and otherwise the first of them in the key order Anger, Sad, Neutral
TieJoyThenKeyOrder ==
  (edits = 1 /\ TieAtMax(out.probs)) =>
    out.best = FirstMaxIn(<<"Joy", "Anger", "Sad", "Neutral">>, out.probs)

\* C6 witness: Sad and Neutral tie at the maximum and the label is Sad
TieSadNeutralSeen ==
  /\ edits = 1
  /\ IsMax(out.probs, "Sad") /\ IsMax(out.probs, "Neutral")
  /\ ~IsMax(out.probs, "Joy")
  /\ out.best = "Sad"

InWeightRange(w, wmax) == \A i \in Issues : -wmax <= w[i] /\ w[i] <= wmax

\* C10 as stated: for every w and every w_max >= 0 each component of
\* clampWeights(w, w_max) lies in [-w_max, w_max], in both variants
ClampedInRange == edits = 1 => InWeightRange(out, wMax)

\* C10: each component of clampWeights(w, w_max) lies in [-w_max, w_max] for
\* every w_max >= 0 in the continuous variant and for every integer
\* w_max >= 0 in the variant that rounds after clipping
ClampedInRangeIntegerMax ==
  (edits = 1 /\ (variant = "belt" => wMax % WU = 0)) => InWeightRange(out, wMax)

\* C10 witness: the rounding variant clips 2.5 to w_max = 2 and rounds 1.5 to 2
ClampedRoundedSeen ==
  /\ edits = 1
  /\ variant = "belt"
  /\ wMax = 20
  /\ wSelf = <<25, -25, 0, 15>>
  /\ out = <<20, -20, 0, 20>>

-----------------------------------------------------------------------------
(* Properties of the component states *)

\* <w, q - x> and <w, x> written out
SumOther(w, xx, qq) ==
  w[1] * (qq[1] - xx[1]) + w[2] * (qq[2] - xx[2])
    + w[3] * (qq[3] - xx[3]) + w[4] * (qq[4] - xx[4])

SumSelf(w, xx) == w[1] * xx[1] + w[2] * xx[2] + w[3] * xx[3] + w[4] * xx[4]

\* the angles a render evaluates: the sweep, and the belt's thetaDeg
Angles ==
  LET sw == sweepThetas
  IN  {sw[k] : k \in DOMAIN sw} \cup {thetaDeg}

\* C5 as stated: utility is cos*<w_other, q-x> + sin*<w_self, x> in every
\* variant, the single-weight one included (w_self = w_other = w); at 0
\* degrees it is <w_other, q-x> and at 90 degrees <w_self, x>
UtilityOtherCosEverywhere ==
  \A th \in Angles \cup {0, 90} :
    /\ utility(th, wSelfClamped, wOtherClamped, x, q)
         = CosDeg(th) * SumOther(wOtherClamped, x, q)
           + SinDeg(th) * SumSelf(wSelfClamped, x)
    /\ utilitySingle(th, wSelfClamped, x, q)
         = CosDeg(th) * SumOther(wSelfClamped, x, q)
           + SinDeg(th) * SumSelf(wSelfClamped, x)

\* C5: in the two-weight components utility is cos*<w_other, q-x> +
\* sin*<w_self, x>, so it is <w_other, q-x> at 0 degrees and <w_self, x> at
\* 90 degrees; in the single-weight component it is cos*<w, x> +
\* sin*<w, q-x>, so it is <w, x> at 0 degrees and <w, q-x> at 90 degrees
UtilityByVariant ==
  /\ \A th \in Angles :
       /\ utility(th, wSelfClamped, wOtherClamped, x, q)
            = CosDeg(th) * SumOther(wOtherClamped, x, q)
              + SinDeg(th) * SumSelf(wSelfClamped, x)
       /\ utilitySingle(th, wSelfClamped, x, q)
            = CosDeg(th) * SumSelf(wSelfClamped, x)
              + SinDeg(th) * SumOther(wSelfClamped, x, q)
  /\ utility(0, wSelfClamped, wOtherClamped, x, q)
       = TRIG * SumOther(wOtherClamped, x, q)
  /\ utility(90, wSelfClamped, wOtherClamped, x, q)
       = TRIG * SumSelf(wSelfClamped, x)
  /\ utilitySingle(0, wSelfClamped, x, q) = TRIG * SumSelf(wSelfClamped, x)
  /\ utilitySingle(90, wSelfClamped, x, q) = TRIG * SumOther(wSelfClamped, x, q)

\* C5 witness: after an edit of the proposal, the two-weight utility at 0
\* degrees is <w_other, q-x> while the single-weight one is <w, x>, and the
\* two differ
UtilityByVariantSeen ==
  /\ edits >= 1
  /\ x # DefaultX
  /\ utility(0, wSelfClamped, wOtherClamped, x, q)
       = TRIG * SumOther(wOtherClamped, x, q)
  /\ utilitySingle(0, wSelfClamped, x, q) = TRIG * SumSelf(wSelfClamped, x)
  /\ SumSelf(wSelfClamped, x) # SumOther(wSelfClamped, x, q)

\* C7: in every reachable state 0 <= x_i <= q_i for every issue i
ProposalInRange == InRange(x, q)

\* C8: scoring runs at every render, so in every reachable state
\* 0 < tau1 < tau2 < 1 and sad_band > 0
ThresholdsAlwaysValid == ValidThresholds

-----------------------------------------------------------------------------
(* Properties of what a render evaluates *)

\* utility of allocation xx at angle th, with the clamped weights
utilityAt(th, xx) == utility(th, wSelfClamped, wOtherClamped, xx, q)

\* part_000: S of allocation xx at angle th for beta = b
satisfactionAt(th, xx, b, cand) ==
  satisfaction(th, wSelfClamped, wOtherClamped, xx, q, b, cand)

\* C1: at every angle of the sweep the proposal's utility is at most the
\* umax found over the candidates, and its satisfaction S has 0 < S <= 1
SatisfactionInUnitInterval ==
  variant = "number" =>
    LET cand == candX
        sw == sweepThetas
    IN  \A k \in DOMAIN sw :
          LET S == satisfactionAt(sw[k], x, beta, cand)
          IN  /\ utilityAt(sw[k], x) <= umaxOver(sw[k], cand)
              /\ 0 < S /\ S <= P

\* C3, part_001 scatter at thetaDeg: umax is the largest clipped utility of
\* the candidates, and a candidate has S = 1 exactly when its clipped
\* utility is umax
ScatterSatisfiedIffMaximal ==
  LET cand == candX
      umax == umaxOver(thetaDeg, cand)
  IN  /\ \E i \in 1 .. Len(cand) : evalU(thetaDeg, cand[i]) = umax
      /\ \A i \in 1 .. Len(cand) :
           LET u == evalU(thetaDeg, cand[i])
           IN  /\ u <= umax
               /\ satisfactionGivenUmax(u, umax, beta) = P <=> u = umax

\* C3, part_000 sweep: at every angle umax is the largest utility of the
\* candidates, and the proposal and every candidate have S = 1 exactly when
\* their utility is umax
SweepSatisfiedIffMaximal ==
  LET cand == candX
      sw == sweepThetas
  IN  \A k \in DOMAIN sw :
        LET umax == umaxOver(sw[k], cand)
        IN  /\ \E i \in 1 .. Len(cand) : utilityAt(sw[k], cand[i]) = umax
            /\ \A i \in 1 .. Len(cand) : utilityAt(sw[k], cand[i]) <= umax
            /\ \A xx \in {x} \cup {cand[i] : i \in 1 .. Len(cand)} :
                 satisfactionAt(sw[k], xx, beta, cand) = P
                   <=> utilityAt(sw[k], xx) = umax

\* C3: for every angle and beta > 0 an allocation has S = 1 if and only if
\* its (floor-clipped, in part_001) utility equals the maximum over the
\* enumerated candidates; every candidate that attains the maximum has S = 1
SatisfiedIffMaximal ==
  beta > 0 =>
    IF variant = "belt" THEN ScatterSatisfiedIffMaximal
                        ELSE SweepSatisfiedIffMaximal

\* C3 witness, part_001: after an edit, with beta > 0, some candidate attains
\* umax with S = 1 and another lies below it with S < 1
ScatterMaximalSeen ==
  /\ variant = "belt"
  /\ edits = 1
  /\ beta > 0
  /\ LET cand == candX
         umax == umaxOver(thetaDeg, cand)
     IN  /\ scatterS(cand[Len(cand)], umax) = P
         /\ evalU(thetaDeg, cand[Len(cand)]) = umax
         /\ scatterS(cand[1], umax) < P

\* p1 <= p2 for probabilities of two distributions: the fractions are
\* compared by cross-multiplying, 1/P terms first and eps terms second
\* (the eps*eps terms are the same on both sides)
ProbLeq(p1, p2) ==
  LET a1 == p1.num[1] * p2.den[1]
      b1 == p2.num[1] * p1.den[1]
      a2 == p1.num[1] * p2.den[2] + p1.num[2] * p2.den[1]
      b2 == p2.num[1] * p1.den[2] + p2.num[2] * p1.den[1]
  IN  a1 < b1 \/ (a1 = b1 /\ a2 <= b2)

\* a step that raises beta and holds everything else fixed
BetaRaised ==
  /\ variant = "number"
  /\ beta' > beta
  /\ UNCHANGED <<variant, q, x, wSelf, wOther, wMax, tau1, tau2, sadBand,
                 thetaDeg, thetaStep, uMin>>

\* C9 as stated: when beta is raised with all else fixed, at every angle
\* where the proposal's utility is below umax, P_Joy does not increase and
\* P_Anger does not decrease
JoyAngerProbMonotone ==
  [][BetaRaised =>
       LET cand == candX
           sw == sweepThetas
       IN  \A k \in DOMAIN sw :
             utilityAt(sw[k], x) < umaxOver(sw[k], cand) =>
               LET p1 == evalProbs(satisfactionAt(sw[k], x, beta, cand))
                   p2 == evalProbs(satisfactionAt(sw[k], x, beta', cand))
               IN  /\ ProbLeq(p2.Joy, p1.Joy)
                   /\ ProbLeq(p1.Anger, p2.Anger)]_vars

\* C9: when beta is raised with all else fixed, at every angle where the
\* proposal's utility is below umax, S does not increase, the Joy score
\* does not increase and the Anger score does not decrease
SatAndScoresMonotone ==
  [][BetaRaised =>
       LET cand == candX
           sw == sweepThetas
       IN  \A k \in DOMAIN sw :
             utilityAt(sw[k], x) < umaxOver(sw[k], cand) =>
               LET S1 == satisfactionAt(sw[k], x, beta, cand)
                   S2 == satisfactionAt(sw[k], x, beta', cand)
                   s1 == emotionScoresFromS(S1, tau1, tau2, sadBand)
                   s2 == emotionScoresFromS(S2, tau1, tau2, sadBand)
               IN  /\ S2 <= S1
                   /\ s2.Joy <= s1.Joy
                   /\ s2.Anger >= s1.Anger]_vars

\* C9 witness: beta has been raised from its default to 4.0, and at some
\* angle the proposal lies below umax, its S is smaller than at the default
\* beta, while its P_Joy is larger than at the default beta
BetaRaisedSeen ==
  /\ variant = "number"
  /\ edits = 1
  /\ beta = 40
  /\ LET cand == candX
         sw == sweepThetas
     IN  \E k \in DOMAIN sw :
           /\ utilityAt(sw[k], x) < umaxOver(sw[k], cand)
           /\ satisfactionAt(sw[k], x, beta, cand)
                < satisfactionAt(sw[k], x, DefaultBeta, cand)
           /\ ~ProbLeq(evalProbs(satisfactionAt(sw[k], x, beta, cand)).Joy,
                       evalProbs(satisfactionAt(sw[k], x, DefaultBeta, cand)).Joy)

-----------------------------------------------------------------------------
(* Weight clamp applied twice *)

\* C11: clampWeights(clampWeights(w, m), m) = clampWeights(w, m) for every w
\* and every m >= 0, in the continuous variant and in the rounding variant
ClampIdempotent ==
  edits = 1 => clampWeightsOf(variant, out, wMax) = out

\* C11 witness: the rounding variant at w_max = 1.5 sends 2.5 to 2, outside
\* the range, and -2.5 to -1; clamping the result again gives the same vector
ClampTwiceSeen ==
  /\ edits = 1
  /\ variant = "belt"
  /\ wMax = 15
  /\ wSelf = <<25, -25, 0, 15>>
  /\ out = <<20, -10, 0, 20>>
  /\ clampWeightsOf(variant, out, wMax) = out

-----------------------------------------------------------------------------
(* Scores at the thresholds *)

\* C12: for valid thresholds (0 < tau1 < tau2 < 1, sad_band > 0)
\* emotionScoresFromS at S = tau1 returns Sad = 1 and Anger = 0, and at
\* S = tau2 returns Joy = 0
BoundaryScores ==
  (edits = 1 /\ ValidThresholds) =>
    /\ sat = tau1 => (out.scores.Sad = P /\ out.scores.Anger = 0)
    /\ sat = tau2 => out.scores.Joy = 0

\* C12 witness: S = tau1 = 0.4 below tau2 = 0.7 has been scored: Sad is 1,
\* Anger is 0
BoundaryScoresSeen ==
  /\ edits = 1
  /\ ValidThresholds
  /\ sat = tau1
  /\ tau1 = 4000
  /\ tau2 = 7000
  /\ out.scores.Sad = P
  /\ out.scores.Anger = 0

-----------------------------------------------------------------------------
(* Totals and candidates of the component states: the components explored  *)
(* through edits of the q inputs and resets alone, so that the candidates  *)
(* can be enumerated and scanned at every state                            *)

MaxTotalEdits == 3

CountedTotal == edits < MaxTotalEdits /\ edits' = edits + 1

NextTotals ==
  \/ CountedTotal /\ SetQ
  \/ CountedTotal /\ Reset

SpecTotals == Init /\ [][NextTotals]_vars

\* C13: in every reachable state every q_i is a non-negative integer, the
\* enumerated candidate list is non-empty and holds the all-zero allocation,
\* and the umax found over it (at the first angle of the sweep and at
\* thetaDeg) is a finite number, not the -Infinity the scan starts from
CandidatesNeverEmpty ==
  LET cand == candX
  IN  /\ \A i \in Issues : q[i] \in Nat
      /\ Len(cand) >= 1
      /\ \E k \in DOMAIN cand : cand[k] = <<0, 0, 0, 0>>
      /\ \A th \in {-90, thetaDeg} : umaxOver(th, cand) > NegInf

\* C13 witness: a negative or empty q_1 has been typed and stored as 0; the
\* candidates are the 6 * 6 * 6 allocations of the other three issues
TotalFlooredSeen ==
  /\ variant = "number"
  /\ edits >= 1
  /\ q = <<0, 5, 5, 5>>
  /\ Len(candX) = 216
  /\ candX[1] = <<0, 0, 0, 0>>

-----------------------------------------------------------------------------
(* beta = 0 *)

\* C14: with beta = 0 the satisfaction S is 1 for the proposal and for every
\* candidate, at every angle the render evaluates (the sweep in part_000,
\* thetaDeg in part_001), whatever the weights and q
BetaZeroSatisfied ==
  beta = 0 =>
    LET cand == candX
    IN  IF variant = "belt"
          THEN LET umax == umaxOver(thetaDeg, cand)
               IN  /\ satisfactionGivenUmax(evalU(thetaDeg, x), umax, beta) = P
                   /\ \A i \in 1 .. Len(cand) :
                        satisfactionGivenUmax(evalU(thetaDeg, cand[i]), umax,
                                              beta) = P
          ELSE LET sw == sweepThetas
               IN  \A k \in DOMAIN sw :
                     \A xx \in {x} \cup {cand[i] : i \in 1 .. Len(cand)} :
                       satisfactionAt(sw[k], xx, beta, cand) = P

\* C14 witness: the beta slider of part_001 has been dragged to 0, and a
\* candidate whose clipped utility lies below umax has S = 1
BetaZeroBelowMaxSeen ==
  /\ variant = "belt"
  /\ edits = 1
  /\ beta = 0
  /\ LET cand == candX
         umax == umaxOver(thetaDeg, cand)
     IN  \E i \in 1 .. Len(cand) :
           LET u == evalU(thetaDeg, cand[i])
           IN  u < umax /\ satisfactionGivenUmax(u, umax, beta) = P

-----------------------------------------------------------------------------
(* Order of the enumeration *)

\* a precedes b in lexicographic order, the first issue most significant
LexLess(a, b) ==
  \E i \in Issues : a[i] < b[i] /\ \A j \in 1 .. (i - 1) : a[j] = b[j]

\* C15: enumerateCandX(q) emits the allocations in lexicographic order with
\* the last issue varying fastest: the first is [0,0,0,0], the last is q, and
\* each is followed by its lexicographic successor (the next one is greater
\* and no allocation of the range lies strictly between the two)
EnumeratorLexOrder ==
  edits = 1 =>
    /\ out[1] = <<0, 0, 0, 0>>
    /\ out[Len(out)] = q
    /\ \A i \in 1 .. (Len(out) - 1) :
         /\ LexLess(out[i], out[i + 1])
         /\ \A a \in (0 .. q[1]) \X (0 .. q[2]) \X (0 .. q[3]) \X (0 .. q[4]) :
              ~(LexLess(out[i], a) /\ LexLess(a, out[i + 1]))

\* C15 witness: q = (2,1,0,2) enumerated; after (0,0,0,2) the last issue
\* wraps to 0 and the carry passes the issue with total 0: (0,1,0,0) follows
EnumeratorCarrySeen ==
  /\ edits = 1
  /\ q = <<2, 1, 0, 2>>
  /\ out[3] = <<0, 0, 0, 2>>
  /\ out[4] = <<0, 1, 0, 0>>
  /\ out[2] = <<0, 0, 0, 1>>

-----------------------------------------------------------------------------
(* utility applied to clamped weights: part_000 with typed totals, shares   *)
(* within the totals, typed weights and w_max; thetaDeg holds the angle     *)

MaxUQ == 2

UtilWeights == {-45, 3, 45}
UtilWMax == {0, 15, 40}
UtilAngles == {-90, -45, 0, 30, 90}

InitUtil ==
  /\ variant = "number"
  /\ q \in {<<a, b, c, c>> : a \in 0 .. MaxUQ, b \in 0 .. MaxUQ, c \in 0 .. MaxUQ}
  /\ x \in {xx \in (0 .. MaxUQ) \X (0 .. MaxUQ) \X (0 .. MaxUQ) \X (0 .. MaxUQ) :
              InRange(xx, q)}
  /\ wSelf \in {<<a, a, b, b>> : a \in UtilWeights, b \in UtilWeights}
  /\ wOther \in {<<a, b, a, b>> : a \in UtilWeights, b \in UtilWeights}
  /\ wMax \in UtilWMax
  /\ thetaDeg \in UtilAngles
  /\ beta = DefaultBeta
  /\ tau1 = DefaultTau1
  /\ tau2 = DefaultTau2
  /\ sadBand = DefaultSadBand
  /\ thetaStep = DefaultThetaStep
  /\ uMin = DefaultUMin
  /\ sat = P
  /\ out = << >>
  /\ edits = 0

ApplyUtility ==
  /\ edits = 0
  /\ out' = utility(thetaDeg, wSelfClamped, wOtherClamped, x, q)
  /\ edits' = 1
  /\ UNCHANGED <<variant, q, x, wSelf, wOther, wMax, beta, tau1, tau2, sadBand,
                 thetaDeg, thetaStep, uMin, sat>>

NextUtil == ApplyUtility

SpecUtil == InitUtil /\ [][NextUtil]_vars

\* max_i(q_i)
MaxTotal(qq) == Max2(Max2(qq[1], qq[2]), Max2(qq[3], qq[4]))

\* C16: for every angle, weights clamped to [-w_max, w_max] and allocation x
\* with 0 <= x_i <= q_i, |utility(theta, w_self, w_other, x, q)| is at most
\* N * w_max * max_i(q_i)
UtilityBounded ==
  edits = 1 => Abs(out) <= N * wMax * MaxTotal(q) * TRIG

\* C16 witness: q = (2,2,2,2) all given to self, every self weight clamped
\* from 4.5 to w_max = 4, theta = 90: the utility is 32 = N * w_max * max q
UtilityAtBoundSeen ==
  /\ edits = 1
  /\ q = <<2, 2, 2, 2>>
  /\ x = q
  /\ wSelf = <<45, 45, 45, 45>>
  /\ wMax = 40
  /\ thetaDeg = 90
  /\ out = 32 * WU * TRIG

-----------------------------------------------------------------------------
(* Renders with the useMemo cells.  A cell keeps the value an earlier       *)
(* render computed together with the dependency values it was computed     *)
(* for; a render recomputes a cell when one of its dependencies differs,   *)
(* reading the cells before it, and otherwise returns the kept value.      *)
(* The cells are the only thing a component keeps between evaluations;     *)
(* `out` holds them.  part_001 sweeps 181 angles (its thetaStep stays 1);  *)
(* of its lineData the rows at -90, 0 and 90 are kept.                     *)

LineSample == <<-90, 0, 90>>

sweepAngles(v, step) == IF v = "belt" THEN LineSample ELSE sweepOf(step)

\* data / lineData computed from the values the closure reads
lineRows(v, angles, ws, wo, xx, qq, b, t1, t2, sb, cand, umin) ==
  [k \in DOMAIN angles |->
     LET th == angles[k]
         S == IF v = "belt"
                THEN LET umax == umaxClampedFrom(th, ws, wo, qq, cand, umin,
                                                 1, Len(cand), NegInf)
                         uClamped == clampUtility(utility(th, ws, wo, xx, qq),
                                                  umin)
                     IN  satisfactionGivenUmax(uClamped, umax, b)
                ELSE satisfaction(th, ws, wo, xx, qq, b, cand)
     IN  [theta |-> th,
          probs |-> scoresToProbs(emotionScoresFromS(S, t1, t2, sb))]]

\* mutation: the classifying loop starts at the second candidate
scatterGroupsSkipFirst(th, ws, wo, qq, cand, b, t1, t2, sb, umin) ==
  LET umax == umaxClampedFrom(th, ws, wo, qq, cand, umin, 1, Len(cand), NegInf)
      labelled ==
        [i \in 1 .. (Len(cand) - 1) |->
           LET xx == cand[i + 1]
               uClamped == clampUtility(utility(th, ws, wo, xx, qq), umin)
               S == satisfactionGivenUmax(uClamped, umax, b)
               probs == scoresToProbs(emotionScoresFromS(S, t1, t2, sb))
           IN  [best |-> argmax(probs),
                sx |-> dot(ws, xx),
                oy |-> dot(wo, add(qq, xx, -1))]]
      pushed(e) == SelectSeq(labelled, LAMBDA p : p.best = e)
  IN  [e \in Emotions |->
         [k \in 1 .. Len(pushed(e)) |->
            [sx |-> pushed(e)[k].sx, oy |-> pushed(e)[k].oy]]]

\* scatterGroups computed from the values the closure reads: every candidate
\* with its label and point, then the four groups in candidate order
scatterGroupsOf(th, ws, wo, qq, cand, b, t1, t2, sb, umin) ==
  LET umax == umaxClampedFrom(th, ws, wo, qq, cand, umin, 1, Len(cand), NegInf)
      labelled ==
        [i \in 1 .. Len(cand) |->
           LET uClamped == clampUtility(utility(th, ws, wo, cand[i], qq), umin)
               S == satisfactionGivenUmax(uClamped, umax, b)
               probs == scoresToProbs(emotionScoresFromS(S, t1, t2, sb))
           IN  [best |-> argmax(probs),
                sx |-> dot(ws, cand[i]),
                oy |-> dot(wo, add(qq, cand[i], -1))]]
      pushed(e) == SelectSeq(labelled, LAMBDA p : p.best = e)
  IN  [e \in Emotions |->
         [k \in 1 .. Len(pushed(e)) |->
            [sx |-> pushed(e)[k].sx, oy |-> pushed(e)[k].oy]]]

\* mutation: thetaDeg is missing from the dependency list of scatterGroups
scatterDepsNoTheta(ws, wo, cand) ==
  <<ws, wo, q, cand, beta, tau1, tau2, sadBand, uMin>>

\* dependency lists of the cells
clampedDeps(w) == <<w, wMax>>

candDeps == <<q>>

lineDeps(ws, wo, cand) ==
  IF variant = "belt"
    THEN <<ws, wo, x, q, beta, tau1, tau2, sadBand, thetaStep, cand, uMin>>
    ELSE <<ws, wo, x, q, beta, tau1, tau2, sadBand, thetaStep, cand>>

scatterDeps(ws, wo, cand) ==
  <<thetaDeg, ws, wo, q, cand, beta, tau1, tau2, sadBand, uMin>>

\* useMemo: the kept cell when its dependencies are the same, else a new one
useMemo(cell, deps, value) ==
  IF cell.deps = deps THEN cell ELSE [deps |-> deps, value |-> value]

\* a cell before the first render
NoCell == [deps |-> << >>, value |-> << >>]

NoCells ==
  [wSelfClamped |-> NoCell, wOtherClamped |-> NoCell, candX |-> NoCell,
   lineData |-> NoCell, scatterGroups |-> NoCell]

\* one render of the component over the cells
render(cells) ==
  LET wsc == useMemo(cells.wSelfClamped, clampedDeps(wSelf),
                     clampWeightsOf(variant, wSelf, wMax))
      woc == useMemo(cells.wOtherClamped, clampedDeps(wOther),
                     clampWeightsOf(variant, wOther, wMax))
      cnd == useMemo(cells.candX, candDeps, enumerateCandX(q))
      ln == useMemo(cells.lineData, lineDeps(wsc.value, woc.value, cnd.value),
                    lineRows(variant, sweepAngles(variant, thetaStep),
                             wsc.value, woc.value, x, q, beta, tau1, tau2,
                             sadBand, cnd.value, uMin))
      sc == IF variant = "belt"
              THEN useMemo(cells.scatterGroups,
                           scatterDeps(wsc.value, woc.value, cnd.value),
                           scatterGroupsOf(thetaDeg, wsc.value, woc.value, q,
                                           cnd.value, beta, tau1, tau2,
                                           sadBand, uMin))
              ELSE cells.scatterGroups
  IN  [wSelfClamped |-> wsc, wOtherClamped |-> woc, candX |-> cnd,
       lineData |-> ln, scatterGroups |-> sc]

\* every cell was computed for the present dependency values
CellsClean ==
  /\ out.wSelfClamped.deps = clampedDeps(wSelf)
  /\ out.wOtherClamped.deps = clampedDeps(wOther)
  /\ out.candX.deps = candDeps
  /\ out.lineData.deps
       = lineDeps(out.wSelfClamped.value, out.wOtherClamped.value,
                  out.candX.value)
  /\ variant = "belt" =>
       out.scatterGroups.deps
         = scatterDeps(out.wSelfClamped.value, out.wOtherClamped.value,
                       out.candX.value)

MaxRenderEdits == 1

InitRender ==
  /\ \E sc \in Scenarios :
       /\ variant = sc.variant
       /\ q = sc.q
       /\ x = sc.x
       /\ wSelf = sc.wSelf
       /\ wOther = sc.wOther
       /\ beta = sc.beta
       /\ thetaStep = sc.thetaStep
  /\ wMax = DefaultWMax
  /\ tau1 = DefaultTau1
  /\ tau2 = DefaultTau2
  /\ sadBand = DefaultSadBand
  /\ thetaDeg = DefaultThetaDeg
  /\ uMin = DefaultUMin
  /\ sat = P
  /\ out = render(NoCells)
  /\ edits = 0

\* the render React runs after a state change
Render ==
  /\ ~CellsClean
  /\ out' = render(out)
  /\ UNCHANGED <<variant, q, x, wSelf, wOther, wMax, beta, tau1, tau2, sadBand,
                 thetaDeg, thetaStep, uMin, sat, edits>>

CountedRender == edits < MaxRenderEdits /\ edits' = edits + 1

NextRender ==
  \/ CountedRender /\ SetQ
  \/ CountedRender /\ SetXTyped
  \/ CountedRender /\ SetXSlider
  \/ CountedRender /\ SetWTyped
  \/ CountedRender /\ SetWSlider
  \/ CountedRender /\ SetWMax
  \/ CountedRender /\ SetBeta
  \/ CountedRender /\ SetTau1
  \/ CountedRender /\ SetTau2
  \/ CountedRender /\ SetSadBand
  \/ CountedRender /\ SetThetaStep
  \/ CountedRender /\ SetThetaDeg
  \/ CountedRender /\ SetUMin
  \/ CountedRender /\ Reset
  \/ Render

SpecRender == InitRender /\ [][NextRender]_vars

\* what the cells hold is what an evaluation of the present parameters gives
CellsFresh ==
  LET cand == candX
      ws == wSelfClamped
      wo == wOtherClamped
  IN  /\ out.wSelfClamped.value = ws
      /\ out.wOtherClamped.value = wo
      /\ out.candX.value = cand
      /\ out.lineData.value
           = lineRows(variant, sweepAngles(variant, thetaStep), ws, wo, x, q,
                      beta, tau1, tau2, sadBand, cand, uMin)
      /\ variant = "belt" =>
           out.scatterGroups.value
             = scatterGroupsOf(thetaDeg, ws, wo, q, cand, beta, tau1, tau2,
                               sadBand, uMin)

\* C17: evaluation is deterministic and holds no hidden state: whatever
\* edits and renders came before, the rendered sweep and classification are
\* those a fresh evaluation of the present parameters gives, so two
\* evaluations with the same parameters give the same results; and a render
\* changes none of q, x, w_self, w_other, nor a candidate list it keeps
RenderDeterministic ==
  /\ [](CellsClean => CellsFresh)
  /\ [][out' # out =>
          /\ UNCHANGED <<q, x, wSelf, wOther>>
          /\ out'.candX.deps = out.candX.deps
               => out'.candX.value = out.candX.value]_vars

\* C17 witness: part_001 after thetaDeg was dragged away from 45 and the
\* component rendered again: the cells are clean, the kept classification
\* is the one of the new angle
RenderAfterEditSeen ==
  /\ variant = "belt"
  /\ edits = 1
  /\ thetaDeg = 0
  /\ CellsClean
  /\ out.scatterGroups.deps[1] = 0
  /\ out.scatterGroups.value
       = scatterGroupsOf(thetaDeg, wSelfClamped, wOtherClamped, q, candX,
                         beta, tau1, tau2, sadBand, uMin)

-----------------------------------------------------------------------------
(* Large totals: part_000 explored through its q inputs with the total 29   *)
(* typed, so that three edits pass 100,000 candidates                       *)

\* the candidate-count ceiling the specification recommends (100,000)
CandidateCeiling == 100000

MaxLargeEdits == 3

LargeCountTyped == {<< >>, <<10>>, <<290>>}

CountedLarge == edits < MaxLargeEdits /\ edits' = edits + 1

NextLarge ==
  \/ CountedLarge /\ SetQOf(LargeCountTyped)
  \/ CountedLarge /\ Reset

SpecLarge == Init /\ [][NextLarge]_vars

\* C18 as stated: when prod(q_i + 1) exceeds the ceiling the candidates are
\* not enumerated (an error is reported instead); the components have no
\* error state, so the candidate list of such a state would have to be
\* short of the prod(q_i + 1) allocations
CeilingReported ==
  Prod(q) > CandidateCeiling => Len(candX) < Prod(q)

-----------------------------------------------------------------------------
(* Divisors of the emotion scorer *)

\* C19: in every state reachable through the threshold sliders (and resets)
\* tau1 > 0, tau2 < 1 and sad_band > 0, so the divisors tau1, 1 - tau2 and
\* sad_band of the Anger, Joy and Sad expressions are never zero
DivisorsPositive ==
  /\ tau1 > 0
  /\ tau2 < P
  /\ sadBand > 0
  /\ P - tau2 # 0

\* C19 witness: the tau2 slider has been dragged to its upper end 0.98; the
\* Joy divisor 1 - tau2 is 0.02
Tau2AtTopSeen ==
  /\ edits = 1
  /\ tau2 = 9800
  /\ P - tau2 = 200
  /\ tau1 = DefaultTau1

-----------------------------------------------------------------------------
(* The four point-sets of the classification sweep *)

\* the values a sequence holds
Range(s) == {s[k] : k \in DOMAIN s}

\* the points (<w_self, x>, <w_other, q - x>) of the candidates, in order
candPoints(ws, wo, cand) ==
  [i \in 1 .. Len(cand) |->
     [sx |-> SumSelf(ws, cand[i]), oy |-> SumOther(wo, cand[i], q)]]

\* C20: the classification sweep of part_001 places every enumerated
\* candidate in exactly one of the four point-sets, as the point
\* (<w_self, x>, <w_other, q - x>) of the clamped weights: the four sets hold
\* prod(q_i + 1) points together, every candidate's point is in one of them,
\* no point value is in two of them, and each set is, in candidate order,
\* the points of the candidates whose point it holds
ScatterPartition ==
  (variant = "belt" /\ CellsClean) =>
    LET groups == out.scatterGroups.value
        points == candPoints(wSelfClamped, wOtherClamped, candX)
        inJoy == Range(groups.Joy)
        inNeutral == Range(groups.Neutral)
        inSad == Range(groups.Sad)
        inAnger == Range(groups.Anger)
    IN  /\ Len(groups.Joy) + Len(groups.Neutral) + Len(groups.Sad)
             + Len(groups.Anger) = Prod(q)
        /\ Len(points) = Prod(q)
        /\ Range(points) \subseteq inJoy \cup inNeutral \cup inSad \cup inAnger
        /\ inJoy \cap (inNeutral \cup inSad \cup inAnger) = {}
        /\ inNeutral \cap (inSad \cup inAnger) = {}
        /\ inSad \cap inAnger = {}
        /\ groups.Joy = SelectSeq(points, LAMBDA p : p \in inJoy)
        /\ groups.Neutral = SelectSeq(points, LAMBDA p : p \in inNeutral)
        /\ groups.Sad = SelectSeq(points, LAMBDA p : p \in inSad)
        /\ groups.Anger = SelectSeq(points, LAMBDA p : p \in inAnger)

\* C20 witness: part_001 rendered after an edit: 1728 points in the four
\* sets, more than one of the sets non-empty
ScatterSplitSeen ==
  /\ variant = "belt"
  /\ edits = 1
  /\ CellsClean
  /\ LET groups == out.scatterGroups.value
     IN  /\ Len(groups.Joy) + Len(groups.Neutral) + Len(groups.Sad)
              + Len(groups.Anger) = 1728
         /\ Len(groups.Joy) > 0
         /\ Len(groups.Anger) > 0
         /\ Len(groups.Neutral) > 0

-----------------------------------------------------------------------------
(* Utility floor: part_001 explored through its u_min input, its theta and  *)
(* beta sliders and resets, with a floor above every utility among the     *)
(* values typed                                                             *)

MaxFloorEdits == 3

FloorTyped == {<< >>, <<-20>>, <<10>>, <<1000>>}

InitFloor ==
  /\ variant = "belt"
  /\ Defaults(variant)
  /\ sat = P
  /\ out = << >>
  /\ edits = 0

CountedFloor == edits < MaxFloorEdits /\ edits' = edits + 1

NextFloor ==
  \/ CountedFloor /\ SetUMinOf(FloorTyped)
  \/ CountedFloor /\ SetThetaDeg
  \/ CountedFloor /\ SetBeta
  \/ CountedFloor /\ Reset

SpecFloor == InitFloor /\ [][NextFloor]_vars

\* the floor u_min and the raw utility of an allocation, in utility units
floorOf(umin) == umin * WU * TRIG

\* C21: in part_001, at thetaDeg (classification sweep) and at the angles
\* -90, 0, 90 of the angle sweep, the umax the scan finds is
\* max(u_min, largest raw utility of the candidates) and so at least u_min;
\* the S of the proposal (angle sweep) and of every candidate
\* (classification sweep) is exp(beta * (max(U_raw, u_min) - umax))
FloorClipped ==
  LET cand == candX
      floor == floorOf(uMin)
  IN  /\ \A th \in {thetaDeg} \cup Range(LineSample) :
           LET umax == umaxOver(th, cand)
               rawmax == umaxFrom(th, wSelfClamped, wOtherClamped, q, cand,
                                  1, Len(cand), NegInf)
           IN  /\ umax = Max2(floor, rawmax)
               /\ umax >= floor
               /\ evalSOver(th, x, cand)
                    = Exp(beta * (Max2(utilityAt(th, x), floor) - umax))
      /\ LET umax == umaxOver(thetaDeg, cand)
         IN  \A i \in 1 .. Len(cand) :
               scatterS(cand[i], umax)
                 = Exp(beta * (Max2(utilityAt(thetaDeg, cand[i]), floor) - umax))

\* C21 witness: u_min = 1 has been typed; at thetaDeg some candidate's raw
\* utility lies below the floor and is raised to it, while umax lies above
FloorRaisesSeen ==
  /\ edits >= 1
  /\ uMin = 1
  /\ LET cand == candX
         umax == umaxOver(thetaDeg, cand)
     IN  /\ umax > floorOf(uMin)
         /\ \E i \in 1 .. Len(cand) :
              /\ utilityAt(thetaDeg, cand[i]) < floorOf(uMin)
              /\ evalU(thetaDeg, cand[i]) = floorOf(uMin)

-----------------------------------------------------------------------------
(* Range and shape of the scores *)

\* C22: for every S in (0,1] and valid thresholds each of the four scores
\* returned by emotionScoresFromS is non-negative and at most 1
ScoresInUnitInterval ==
  (edits = 1 /\ ValidThresholds /\ 0 < sat /\ sat <= P) =>
    \A e \in Emotions : 0 <= out.scores[e] /\ out.scores[e] <= P

\* C22 witness: S = 1 with tau1 = 0.4, tau2 = 0.7: (tau1 - S)/tau1 is
\* negative and Anger is clipped to 0, Joy is (1 - tau2)/(1 - tau2) = 1
ScoresClippedSeen ==
  /\ edits = 1
  /\ sat = P
  /\ tau1 = 4000
  /\ tau2 = 7000
  /\ tau1 - sat < 0
  /\ out.scores.Anger = 0
  /\ out.scores.Joy = P


\* C23: for valid thresholds Neutral is 0 for S <= tau1 and for S >= tau2,
\* 1 at S = (tau1 + tau2)/2, and between the thresholds it is
\* 1 - |S - (tau1+tau2)/2| / ((tau2 - tau1)/2), that is twice the distance
\* to the nearer threshold over tau2 - tau1: positive, falling linearly to 0
\* at either threshold
NeutralTriangle ==
  (edits = 1 /\ ValidThresholds) =>
    /\ (sat <= tau1 \/ sat >= tau2) => out.scores.Neutral = 0
    /\ 2 * sat = tau1 + tau2 => out.scores.Neutral = P
    /\ (tau1 < sat /\ sat < tau2) =>
         /\ out.scores.Neutral
              = (2 * Min2(sat - tau1, tau2 - sat) * P) \div (tau2 - tau1)
         /\ out.scores.Neutral > 0

\* C23 witness: S = 0.55 is the midpoint of tau1 = 0.4 and tau2 = 0.7 and
\* scores Neutral = 1
NeutralPeakSeen ==
  /\ edits = 1
  /\ sat = 5500
  /\ tau1 = 4000
  /\ tau2 = 7000
  /\ out.scores.Neutral = P

-----------------------------------------------------------------------------
(* The angle sweep applied: part_000 with small typed totals at every       *)
(* position of its grid step slider, part_001 at its constructed state     *)

\* theta grid step slider: min, max
MinThetaStep == 1
MaxThetaStep == 10

InitSweep ==
  /\ \/ /\ variant = "number"
        /\ q = <<1, 1, 0, 0>>
        /\ x \in {<<0, 0, 0, 0>>, <<1, 0, 0, 0>>, <<0, 1, 0, 0>>, <<1, 1, 0, 0>>}
        /\ beta \in BetaSlider \cup {DefaultBeta}
        /\ thetaStep \in MinThetaStep .. MaxThetaStep
     \/ /\ variant = "belt"
        /\ q = DefaultQ
        /\ x = DefaultX
        /\ beta = DefaultBeta
        /\ thetaStep = DefaultThetaStep
  /\ wSelf = DefaultWSelf(variant)
  /\ wOther = DefaultWOther(variant)
  /\ wMax = DefaultWMax
  /\ tau1 = DefaultTau1
  /\ tau2 = DefaultTau2
  /\ sadBand = DefaultSadBand
  /\ thetaDeg = DefaultThetaDeg
  /\ uMin = DefaultUMin
  /\ sat = P
  /\ out = << >>
  /\ edits = 0

Sweep ==
  /\ edits = 0
  /\ out' = data
  /\ edits' = 1
  /\ UNCHANGED <<variant, q, x, wSelf, wOther, wMax, beta, tau1, tau2, sadBand,
                 thetaDeg, thetaStep, uMin, sat>>

NextSweep == Sweep

SpecSweep == InitSweep /\ [][NextSweep]_vars

\* C24: for every grid step 1..10 the angle sweep ends with
\* floor(180/step) + 1 rows; the k-th row has theta = -90 + (k-1)*step, so
\* the thetas start at -90, increase strictly and never exceed 90; each row
\* carries the four probabilities of its theta
SweepRows ==
  edits = 1 =>
    /\ thetaStep >= 1
    /\ Len(out) = (180 \div thetaStep) + 1
    /\ out[1].theta = -90
    /\ \A k \in 1 .. Len(out) :
         /\ out[k].theta = -90 + (k - 1) * thetaStep
         /\ out[k].theta <= 90
         /\ DOMAIN out[k].probs = Emotions
         /\ out[k].probs = evalProbs(evalS(out[k].theta, x))
    /\ \A k \in 1 .. (Len(out) - 1) : out[k].theta < out[k + 1].theta

\* C24 witness: part_000 swept with step 7, which does not divide 180: 26
\* rows, the last at theta = 85
SweepStepSevenSeen ==
  /\ edits = 1
  /\ variant = "number"
  /\ thetaStep = 7
  /\ Len(out) = 26
  /\ out[26].theta = 85
  /\ out[1].theta = -90

-----------------------------------------------------------------------------
(* The Joy point-set *)

\* C25: in every rendered state of part_001 every candidate whose clipped
\* utility equals umax is in the Joy point-set, which is therefore never
\* empty
JoyAtMaximum ==
  (variant = "belt" /\ CellsClean) =>
    LET cand == candX
        umax == umaxOver(thetaDeg, cand)
        inJoy == Range(out.scatterGroups.value.Joy)
    IN  /\ \A i \in 1 .. Len(cand) :
             evalU(thetaDeg, cand[i]) = umax => scatterPoint(cand[i]) \in inJoy
        /\ out.scatterGroups.value.Joy # << >>

\* C25 witness: part_001 rendered after beta was dragged to 4.0: the Joy
\* point-set holds the maximal candidates and is smaller than the Anger one
JoySetSmallSeen ==
  /\ variant = "belt"
  /\ edits = 1
  /\ beta = 40
  /\ CellsClean
  /\ Len(out.scatterGroups.value.Joy) >= 1
  /\ Len(out.scatterGroups.value.Joy) < Len(out.scatterGroups.value.Anger)

-----------------------------------------------------------------------------
(* The scorer on a finer grid of S, with slider positions at which          *)
(* tau2 - tau1 is below, equal to and above sad_band                        *)

BandStep == 100

BandTau1 == {4000, 6000}
BandTau2 == {4500, 5000, 7000}
BandSadBand == {200, 500, 1000}

InitBand ==
  /\ variant = "belt"
  /\ sat \in {k * BandStep : k \in 1 .. (P \div BandStep)}
  /\ tau1 \in BandTau1
  /\ tau2 \in BandTau2
  /\ sadBand \in BandSadBand
  /\ q = DefaultQ
  /\ x = DefaultX
  /\ wSelf = DefaultWSelf("belt")
  /\ wOther = DefaultWOther("belt")
  /\ wMax = DefaultWMax
  /\ RestDefault

SpecBand == InitBand /\ [][NextScore]_vars

\* C26: for S in (0,1] and valid thresholds all four scores are 0 if and
\* only if S = tau2 and tau2 - tau1 >= sad_band; for every other S at least
\* one score is positive
AllZeroOnlyAtTau2 ==
  (edits = 1 /\ ValidThresholds /\ 0 < sat /\ sat <= P) =>
    ((\A e \in Emotions : out.scores[e] = 0)
       <=> (sat = tau2 /\ tau2 - tau1 >= sadBand))

\* C26 witness: S = tau2 = 0.5 with tau1 = 0.4 and sad_band = 0.1, the band
\* just reaching tau2: all four scores are 0
AllZeroAtBandEdgeSeen ==
  /\ edits = 1
  /\ sat = 5000
  /\ tau1 = 4000
  /\ tau2 = 5000
  /\ sadBand = 1000
  /\ \A e \in Emotions : out.scores[e] = 0


\* C27: with tau1 < tau2 at most one of Anger, Neutral and Joy is non-zero:
\* Anger > 0 only if S < tau1, Neutral > 0 only if tau1 < S < tau2, Joy > 0
\* only if S > tau2; only Sad can be non-zero together with another score
OneRegionScore ==
  (edits = 1 /\ tau1 < tau2) =>
    /\ out.scores.Anger > 0 => sat < tau1
    /\ out.scores.Neutral > 0 => (tau1 < sat /\ sat < tau2)
    /\ out.scores.Joy > 0 => sat > tau2
    /\ Cardinality({e \in {"Anger", "Neutral", "Joy"} : out.scores[e] # 0}) <= 1

\* C27 witness: S = 0.45 between tau1 = 0.4 and tau2 = 0.5 with sad_band =
\* 0.1: Neutral and Sad are both positive, Anger and Joy are 0
SadBesideNeutralSeen ==
  /\ edits = 1
  /\ sat = 4500
  /\ tau1 = 4000
  /\ tau2 = 5000
  /\ sadBand = 1000
  /\ out.scores.Neutral > 0
  /\ out.scores.Sad > 0
  /\ out.scores.Anger = 0
  /\ out.scores.Joy = 0

-----------------------------------------------------------------------------
(* Edits followed by resets; out records the parameters a reset replaced    *)

MaxResetEdits == 2

params == <<q, x, wSelf, wOther, wMax, beta, tau1, tau2, sadBand,
            thetaDeg, thetaStep, uMin>>

ResetLogged ==
  /\ reset
  /\ out' = <<params>>
  /\ UNCHANGED <<variant, sat, edits>>

CountedReset == edits < MaxResetEdits /\ edits' = edits + 1

NextReset ==
  \/ CountedReset /\ SetQ
  \/ CountedReset /\ SetXTyped
  \/ CountedReset /\ SetXSlider
  \/ CountedReset /\ SetWTyped
  \/ CountedReset /\ SetWSlider
  \/ CountedReset /\ SetWMax
  \/ CountedReset /\ SetBeta
  \/ CountedReset /\ SetTau1
  \/ CountedReset /\ SetTau2
  \/ CountedReset /\ SetSadBand
  \/ CountedReset /\ SetThetaStep
  \/ CountedReset /\ SetThetaDeg
  \/ CountedReset /\ SetUMin
  \/ ResetLogged

SpecReset == Init /\ [][NextReset]_vars

\* C28: after any sequence of parameter edits, reset puts every editable
\* parameter back to the default the component was constructed with, so the
\* parameters after reset are those of the initial state, and a reset made
\* in that state changes none of them
ResetRestoresDefaults ==
  /\ [][out' # out => Defaults(variant)']_vars
  /\ [][(out' # out /\ Defaults(variant)) => UNCHANGED params]_vars

\* C28 witness: a reset has just replaced parameters two edits away from the
\* defaults and the state is the constructed one again
ResetAfterEditsSeen ==
  /\ edits = 2
  /\ out # << >>
  /\ Cardinality({i \in 1 .. Len(params) : out[1][i] # params[i]}) = 2
  /\ Defaults(variant)

=============================================================================
